---- MODULE Spec2Model ----
(***************************************************************************)
(* A model of endlessh-rs: the tarpit scheduler (src/src/endlessh.rs,      *)
(* EndlesshServer) and the metrics responder (src/src/metrics.rs,          *)
(* MetricServer).  Both are single-threaded and driven by readiness        *)
(* events; the sockets, the kernel's accept backlog and the clock are the  *)
(* environment and are drawn from small sets.                              *)
(***************************************************************************)
EXTENDS Integers, Sequences, FiniteSets

(***************************************************************************)
(* Bounds of the model.                                                    *)
(***************************************************************************)
\* largest instant the clock reaches
MaxTime == 3
\* number of peers that ever connect to the tarpit listener
MaxConns == 2
\* number of banner lines generated: a handle_wakeup call that would generate
\* one more is not started
MaxLines == 2

\* number of peers that ever connect to the metrics listener
MaxMetricConns == 3
\* capacity of the request buffer in request symbols; it stands for
\* METRIC_HTTP_REQUEST_MAX_SIZE (8192 bytes, src/src/metrics.rs:17)
MaxRequestSize == 4

\* the EndlesshOptions the scheduler is created with
OptionsTried ==
    [max_clients : 0 .. 2,
     banner_line_length : {1},
     message_delay : 0 .. 2,
     newline : {"LF"}]

\* the EndlesshOptions create is tried with, around the limit of the assert
CreateOptionsTried ==
    [max_clients : 0 .. 2,
     banner_line_length : {0, 1, 254, 255, 256, 257},
     message_delay : 0 .. 2,
     newline : {"LF", "CRLF"}]

\* Option::None of an Option<Instant> or Option<Duration>; also a field that
\* holds nothing yet
None == -1

\* const SSH_LINE_BUFFER_SIZE: usize = 256
SSH_LINE_BUFFER_SIZE == 256

\* fastrand::alphanumeric(): the bytes a draw can yield, 0-9, A-Z and a-z
alphanumeric == (48 .. 57) \cup (65 .. 90) \cup (97 .. 122)

\* the draws tried: 'a' and 'b'
BytesTried == {b \in alphanumeric : b \in {97, 98}}

VARIABLES
    \* ---- EndlesshServer (src/src/endlessh.rs:93-101)
    options,                   \* EndlesshOptions, fixed at create
    clients,                   \* VecDeque<EndlesshClient>
    listener_accept_available, \* bool
    line_buffer,               \* the first banner_line_length + terminator bytes of it
    stats,                     \* EndlesshStats
    \* ---- environment of the tarpit listener
    backlog,                   \* connections the kernel holds for accept()
    \* ---- position inside handle_wakeup
    pc,                        \* "uncreated" | "idle" | "wakeup" | "panicked"
    now,                       \* the `now` argument of the running / last call
    generated_line,            \* local of handle_wakeup
    ret,                       \* value handle_wakeup returned last
    \* ---- history of the running / last handle_wakeup call
    last,                      \* what the last call or loop iteration did
    fresh0,                    \* ids queued at entry with last_send_time = None
    attempted,                 \* ids a send was attempted for in this call
    sent_lines,                \* the slices handed to write() in this call
    generated0,                \* bytes_generated at entry of this call
    bytes_written,             \* sum of the n of the Ok(n) the tarpit writes answered
    \* ---- MetricServer (src/src/metrics.rs:79-85)
    client_token_range,        \* the tokens create was given, fixed
    metric_listener_accept_available, \* bool
    available_connections,     \* VecDeque<Token>
    current_connections,       \* HashMap<Token, HttpClient>
    \* ---- environment of the metrics listener
    metric_backlog,            \* connections the kernel holds for accept()
    metric_peers,              \* number of peers that have connected so far
    \* ---- history of the metrics responder
    metric_pc,                 \* "uncreated" | "idle" | "panicked"
    metric_last                \* what the last try_handle_event call did

tarpit_vars == <<options, clients, listener_accept_available, line_buffer, stats, backlog,
                 pc, now, generated_line, ret, last, fresh0, attempted, sent_lines, generated0, bytes_written>>

metric_vars == <<client_token_range, metric_listener_accept_available, available_connections,
                 current_connections, metric_backlog, metric_peers, metric_pc, metric_last>>

vars == <<tarpit_vars, metric_vars>>

(***************************************************************************)
(* Pure helpers of the tarpit scheduler.                                   *)
(***************************************************************************)

\* NewLine::get_data: the terminator bytes
get_data(newline) == IF newline = "LF" THEN <<10>> ELSE <<13, 10>>

\* length of the slice handed to write() in send_line
LineLen == options.banner_line_length + Len(get_data(options.newline))

\* Instant::checked_duration_since: Some(a - b) when a >= b, else None
checked_duration_since(a, b) == IF a >= b THEN a - b ELSE None

\* send_or_wait as it would be if the delay were left out of the deadline
send_or_wait_without_delay(client, t) ==
    IF client.last_send_time = None
    THEN None
    ELSE checked_duration_since(client.last_send_time, t)

\* the send_or_wait match of handle_wakeup: None means "send now"
send_or_wait(client, t) ==
    IF client.last_send_time = None
    THEN None
    ELSE checked_duration_since(client.last_send_time + options.message_delay, t)

\* the loop condition as it would be with <= for <
accept_guard_off_by_one(avail, cl) == avail /\ Len(cl) <= options.max_clients

\* the loop condition of accept_new_connections
accept_guard(avail, cl) == avail /\ Len(cl) < options.max_clients

\* EndlesshClient built by accept_new_connections
new_client(st, t) ==
    [id |-> st.connections_opened + 1, connected_time |-> t, last_send_time |-> None]

\* the accept() calls of one run of an accept loop: aerr is the number of
\* connections accept() hands over before it fails with an error other than
\* WouldBlock, None when it never fails.  waiting connections can be handed
\* over and the loop calls accept() at most room times after an Ok
AcceptErrorsTried(waiting, room) == {None} \cup {k \in 0 .. waiting : k < room}

\* aerr after one more connection was handed over
after_accept(aerr) == IF aerr = None THEN None ELSE aerr - 1

\* accept_new_connections: s = [clients, avail, backlog, stats, aerr, panicked]
RECURSIVE accept_new_connections(_, _)
accept_new_connections(s, t) ==
    IF accept_guard(s.avail, s.clients)
    THEN IF s.aerr = 0
         THEN [s EXCEPT !.panicked = TRUE]
         ELSE IF s.backlog > 0
              THEN accept_new_connections(
                       [s EXCEPT !.clients = Append(@, new_client(s.stats, t)),
                                 !.backlog = @ - 1,
                                 !.stats.connections_opened = @ + 1,
                                 !.aerr = after_accept(@)], t)
              ELSE accept_new_connections([s EXCEPT !.avail = FALSE], t)
    ELSE s

\* the drop branch as it would be without the call of accept_new_connections
on_dropped_without_accept(s, t) == s

\* handle_wakeup, send_line returned None: the client is dropped and a
\* replacement is accepted at once
on_dropped(s, t) == accept_new_connections(s, t)

\* results of one non-blocking write() of the line
WriteResults ==
    [kind : {"Ok"}, n : 0 .. LineLen]
        \cup {[kind |-> "WouldBlock", n |-> 0], [kind |-> "Err", n |-> 0]}

\* Option::unwrap_or
unwrap_or(opt, default) == IF opt = None THEN default ELSE opt

\* send_line as it would be with `bytes_sent = n` for `bytes_sent += n`
send_line_overwriting(client, t, res, st) ==
    IF res.kind = "Ok" /\ res.n > 0
    THEN [keep |-> TRUE,
          client |-> [client EXCEPT !.last_send_time = t],
          stats |-> [st EXCEPT !.bytes_sent = res.n,
                               !.trapped_time = @ + (t - unwrap_or(client.last_send_time,
                                                                   client.connected_time))]]
    ELSE [keep |-> res.kind = "WouldBlock", client |-> client, stats |-> st]

\* send_line as it would be if it counted the length of the slice it handed
\* to write() instead of the count write() returned
send_line_counting_slice(client, t, res, st) ==
    IF res.kind = "Ok" /\ res.n > 0
    THEN [keep |-> TRUE,
          client |-> [client EXCEPT !.last_send_time = t],
          stats |-> [st EXCEPT !.bytes_sent = @ + LineLen,
                               !.trapped_time = @ + (t - unwrap_or(client.last_send_time,
                                                                   client.connected_time))]]
    ELSE [keep |-> res.kind = "WouldBlock", client |-> client, stats |-> st]

\* send_line: [keep, client, stats]; keep = FALSE is the None result (client dropped)
send_line(client, t, res, st) ==
    IF res.kind = "Ok" /\ res.n = 0
    THEN [keep |-> FALSE, client |-> client, stats |-> st]
    ELSE IF res.kind = "Ok"
    THEN [keep |-> TRUE,
          client |-> [client EXCEPT !.last_send_time = t],
          stats |-> [st EXCEPT !.bytes_sent = @ + res.n,
                               !.trapped_time = @ + (t - unwrap_or(client.last_send_time,
                                                                   client.connected_time))]]
    ELSE IF res.kind = "WouldBlock"
    THEN [keep |-> TRUE, client |-> client, stats |-> st]
    ELSE [keep |-> FALSE, client |-> client, stats |-> st]

NoStep == [kind |-> "none", id |-> 0, prev |-> None, res |-> "none",
           avail_before |-> FALSE, backlog_before |-> 0, admitted |-> 0]

\* the assert of EndlesshServer::create as it would be with the check that
\* EndlesshArgs::validate makes
create_assert_without_terminator(o) == o.banner_line_length < SSH_LINE_BUFFER_SIZE

\* assert!(banner_line_length + newline.get_data().len() <= SSH_LINE_BUFFER_SIZE)
create_assert(o) ==
    o.banner_line_length + Len(get_data(o.newline)) <= SSH_LINE_BUFFER_SIZE

\* the part of line_buffer that send_line hands to write(), as create leaves it:
\* zeroes, then the terminator
new_line_buffer(o) == [i \in 1 .. o.banner_line_length |-> 0] \o get_data(o.newline)

\* EndlesshStats::default, the clock standing at t
default_stats(t) ==
    [started_time |-> t, last_known_time |-> t,
     connections_opened |-> 0, connections_closed |-> 0,
     bytes_generated |-> 0, bytes_sent |-> 0, trapped_time |-> 0]

\* the first assert of both entry points as it would be if it were left out
time_never_checked(t, st) == FALSE

\* assert!(*now >= self.stats.last_known_time, "time went backwards!") fails
time_went_backwards(t, st) == t < st.last_known_time

\* the instants a call is tried with: every instant from last_known_time on,
\* and the one before it
TimesTried(st) == {t \in 0 .. MaxTime : t >= st.last_known_time - 1}

\* rand_line on a buffer of n bytes: the contents it can leave, one draw a byte
rand_line(n) == [1 .. n -> BytesTried]

\* `if !generated_line` as it would be if the flag were never looked at
must_generate_always(flag) == TRUE

\* `if !generated_line`
must_generate(flag) == ~flag

(***************************************************************************)
(* Init: the state EndlesshServer::create returns.                         *)
(***************************************************************************)
TarpitInit ==
    /\ options \in OptionsTried
    /\ clients = <<>>
    /\ listener_accept_available = FALSE
    /\ line_buffer = new_line_buffer(options)
    /\ stats = default_stats(0)
    /\ backlog = 0
    /\ pc = "idle"
    /\ now = 0
    /\ generated_line = FALSE
    /\ ret = None
    /\ last = NoStep
    /\ fresh0 = {}
    /\ attempted = {}
    /\ sent_lines = {}
    /\ generated0 = 0
    /\ bytes_written = 0

(***************************************************************************)
(* EndlesshServer::create(options, listener, listener_token, poll): the   *)
(* assert, the allocation of the queue and the registration of the         *)
(* listener each end the call fatally when they fail.                      *)
(***************************************************************************)
CreateInit ==
    /\ options \in CreateOptionsTried
    /\ clients = None
    /\ listener_accept_available = None
    /\ line_buffer = None
    /\ stats = None
    /\ backlog = 0
    /\ pc = "uncreated"
    /\ now = 0
    /\ generated_line = FALSE
    /\ ret = None
    /\ last = NoStep
    /\ fresh0 = {}
    /\ attempted = {}
    /\ sent_lines = {}
    /\ generated0 = 0
    /\ bytes_written = 0

\* VecDeque::with_capacity(capacity): it panics with "capacity overflow" when
\* the bytes of capacity clients exceed isize::MAX and ends the process when
\* the allocator fails; a capacity of 0 allocates nothing
with_capacity_results(capacity) == IF capacity = 0 THEN {"Ok"} ELSE {"Ok", "Fatal"}

\* poll.registry().register(&mut listener, listener_token, Interest::READABLE)
RegisterResults == {"Ok", "Err"}

\* the statement create ends at: the assert, with_capacity or the unwrap() of
\* the registration when that one fails, "Ok" when the server is returned
create_end(o, alloc, reg) ==
    IF ~create_assert(o) THEN "assert"
    ELSE IF alloc # "Ok" THEN "with_capacity"
    ELSE IF reg # "Ok" THEN "register"
    ELSE "Ok"

Create ==
    /\ pc = "uncreated"
    /\ \E alloc \in with_capacity_results(options.max_clients), reg \in RegisterResults :
          \E end \in {create_end(options, alloc, reg)} :
              /\ IF end = "Ok"
                 THEN /\ line_buffer' = new_line_buffer(options)
                      /\ clients' = <<>>
                      /\ listener_accept_available' = FALSE
                      /\ stats' = default_stats(now)
                      /\ pc' = "idle"
                 ELSE /\ pc' = "panicked"
                      /\ UNCHANGED <<clients, listener_accept_available, line_buffer, stats>>
              /\ last' = [NoStep EXCEPT !.kind = "create", !.res = end]
    /\ UNCHANGED <<options, backlog, now, generated_line, ret, fresh0,
                   attempted, sent_lines, generated0, bytes_written>>

(***************************************************************************)
(* Environment: a peer connects to the tarpit listener.                    *)
(***************************************************************************)
Connect ==
    /\ pc \in {"idle", "wakeup"}
    /\ stats.connections_opened + backlog < MaxConns
    /\ backlog' = backlog + 1
    /\ UNCHANGED <<options, clients, listener_accept_available, line_buffer, stats, pc, now,
                   generated_line, ret, last, fresh0, attempted, sent_lines, generated0, bytes_written>>

(***************************************************************************)
(* try_handle_event(event, now)                                            *)
(***************************************************************************)
TryHandleEvent ==
    /\ pc = "idle"
    /\ \E t \in TimesTried(stats), is_listener \in BOOLEAN :
          /\ now' = t
          /\ last' = [NoStep EXCEPT !.kind = "event"]
          /\ IF time_went_backwards(t, stats)
             THEN /\ pc' = "panicked"
                  /\ UNCHANGED <<clients, listener_accept_available, stats, backlog>>
             ELSE LET st1 == [stats EXCEPT !.last_known_time = t]
                  IN  IF is_listener
                      THEN \E aerr \in AcceptErrorsTried(
                                        backlog, options.max_clients - Len(clients)) :
                           \E s \in {accept_new_connections(
                                        [clients |-> clients, avail |-> TRUE,
                                         backlog |-> backlog, stats |-> st1, aerr |-> aerr,
                                         panicked |-> FALSE], t)} :
                           /\ clients' = s.clients
                           /\ listener_accept_available' = s.avail
                           /\ backlog' = s.backlog
                           /\ stats' = s.stats
                           /\ pc' = IF s.panicked THEN "panicked" ELSE "idle"
                      ELSE /\ stats' = st1
                           /\ UNCHANGED <<clients, listener_accept_available, backlog, pc>>
          \* the record of the last handle_wakeup call ends with the next call
          /\ ret' = None
          /\ fresh0' = {}
          /\ attempted' = {}
          /\ sent_lines' = {}
          /\ generated0' = stats.bytes_generated
    /\ UNCHANGED <<options, line_buffer, generated_line, bytes_written>>

(***************************************************************************)
(* handle_wakeup(now): entry, then one action per iteration of             *)
(* `while let Some(client) = self.clients.pop_front()`.                    *)
(***************************************************************************)
\* the call generates a line exactly when the first client it pops is due
will_generate(t) == clients # <<>> /\ send_or_wait(Head(clients), t) = None

\* ids of the queued clients that have never been sent a line
fresh_ids(cl) == {cl[i].id : i \in {j \in 1 .. Len(cl) : cl[j].last_send_time = None}}

\* ids of the queued clients that were sent a line before and are sent one
\* at t: (last_send + message_delay).checked_duration_since(now) is None
due_ids(cl, t) ==
    {cl[i].id : i \in {j \in 1 .. Len(cl) :
                         /\ cl[j].last_send_time # None
                         /\ send_or_wait(cl[j], t) = None}}

HandleWakeup ==
    /\ pc = "idle"
    /\ \E t \in TimesTried(stats) :
          /\ will_generate(t) =>
                 stats.bytes_generated < MaxLines * options.banner_line_length
          /\ now' = t
          /\ last' = [NoStep EXCEPT !.kind = "enter"]
          /\ IF time_went_backwards(t, stats)
             THEN /\ pc' = "panicked"
                  /\ fresh0' = {}
                  /\ UNCHANGED <<stats, generated_line>>
             ELSE /\ stats' = [stats EXCEPT !.last_known_time = t]
                  /\ generated_line' = FALSE
                  /\ pc' = "wakeup"
                  /\ fresh0' = fresh_ids(clients)
          /\ ret' = None
          /\ attempted' = {}
          /\ sent_lines' = {}
          /\ generated0' = stats.bytes_generated
    /\ UNCHANGED <<options, clients, listener_accept_available, line_buffer, backlog,
                   bytes_written>>

\* the popped client is due: generate the line once, send, requeue or drop
WakeupSend ==
    /\ pc = "wakeup"
    /\ clients # <<>>
    /\ send_or_wait(Head(clients), now) = None
    /\ \E res \in WriteResults,
          line \in IF must_generate(generated_line)
                   THEN rand_line(options.banner_line_length)
                   ELSE {SubSeq(line_buffer, 1, options.banner_line_length)} :
          LET client == Head(clients)
              rest == Tail(clients)
              st1 == IF must_generate(generated_line)
                     THEN [stats EXCEPT !.bytes_generated = @ + options.banner_line_length]
                     ELSE stats
              buf == line \o SubSeq(line_buffer, options.banner_line_length + 1,
                                    Len(line_buffer))
          IN  \E r \in {send_line(client, now, res, st1)} :
              \E aerr \in IF r.keep \/ ~listener_accept_available
                           THEN {None}
                           ELSE AcceptErrorsTried(
                                    backlog, options.max_clients - Len(rest)) :
              \E s \in {IF r.keep
                        THEN [clients |-> Append(rest, r.client),
                              avail |-> listener_accept_available, backlog |-> backlog,
                              stats |-> r.stats, aerr |-> aerr, panicked |-> FALSE]
                        ELSE on_dropped(
                                 [clients |-> rest, avail |-> listener_accept_available,
                                  backlog |-> backlog, stats |-> r.stats, aerr |-> aerr,
                                  panicked |-> FALSE], now)} :
              /\ generated_line' = TRUE
              /\ line_buffer' = buf
              /\ clients' = s.clients
              /\ listener_accept_available' = s.avail
              /\ backlog' = s.backlog
              /\ stats' = s.stats
              /\ pc' = IF s.panicked THEN "panicked" ELSE "wakeup"
              /\ last' = [kind |-> IF r.keep THEN "requeue" ELSE "drop",
                          id |-> client.id, prev |-> client.last_send_time,
                          res |-> IF res.kind = "Ok"
                                  THEN (IF res.n = 0 THEN "zero"
                                        ELSE IF res.n < LineLen THEN "partial" ELSE "full")
                                  ELSE res.kind,
                          avail_before |-> listener_accept_available,
                          backlog_before |-> backlog,
                          admitted |-> backlog - s.backlog]
              /\ attempted' = attempted \cup {client.id}
              /\ sent_lines' = sent_lines \cup {SubSeq(buf, 1, LineLen)}
              /\ bytes_written' = bytes_written + (IF res.kind = "Ok" THEN res.n ELSE 0)
              /\ UNCHANGED <<options, now, ret, fresh0, generated0>>

\* the not-yet-due arm as it would be with `break` for `return Some(need_to_wait)`:
\* the loop is left and the None behind it is returned
WakeupWait_without_return ==
    /\ pc = "wakeup"
    /\ clients # <<>>
    /\ send_or_wait(Head(clients), now) # None
    /\ clients' = Append(Tail(clients), Head(clients))
    /\ ret' = None
    /\ last' = [NoStep EXCEPT !.kind = "wait", !.id = Head(clients).id,
                              !.prev = Head(clients).last_send_time]
    /\ pc' = "idle"
    /\ UNCHANGED <<options, listener_accept_available, line_buffer, stats, backlog, now,
                   generated_line, fresh0, attempted, sent_lines,
                   generated0, bytes_written>>

\* the popped client is not yet due: requeue it and return the wait
WakeupWait ==
    /\ pc = "wakeup"
    /\ clients # <<>>
    /\ send_or_wait(Head(clients), now) # None
    /\ clients' = Append(Tail(clients), Head(clients))
    /\ ret' = send_or_wait(Head(clients), now)
    /\ last' = [NoStep EXCEPT !.kind = "wait", !.id = Head(clients).id,
                              !.prev = Head(clients).last_send_time]
    /\ pc' = "idle"
    /\ UNCHANGED <<options, listener_accept_available, line_buffer, stats, backlog, now,
                   generated_line, fresh0, attempted, sent_lines,
                   generated0, bytes_written>>

\* pop_front returned None: the loop ends and the call returns None
WakeupDone ==
    /\ pc = "wakeup"
    /\ clients = <<>>
    /\ ret' = None
    /\ last' = [NoStep EXCEPT !.kind = "done"]
    /\ pc' = "idle"
    /\ UNCHANGED <<options, clients, listener_accept_available, line_buffer, stats,
                   backlog, now, generated_line, fresh0, attempted, sent_lines, generated0, bytes_written>>

WakeupIterate == WakeupSend \/ WakeupWait \/ WakeupDone

(***************************************************************************)
(* The metrics responder.  A request is a sequence of symbols: a method    *)
(* ("GET", "POST"), a path ("/metrics", "/other"), the version with its    *)
(* line end ("HTTP/1.1"), header lines ("Host") and the empty line ("").   *)
(* "t" is a character of a method token that has not ended yet, "#" a      *)
(* byte no request line may hold.  A response is a sequence of units, each *)
(* a tuple of numbers: the status line, the Content-Length line, the body. *)
(***************************************************************************)

\* sizes of the token pool the responder is created with
PoolsTried == {1, 2}

\* requests a peer may send
Heads ==
    { <<"GET", "/metrics", "HTTP/1.1", "">>,
      <<"POST", "/metrics", "HTTP/1.1", "">>,
      <<"GET", "/other", "HTTP/1.1", "">>,
      <<"POST", "/other", "HTTP/1.1", "Host", "">>,
      <<"GET", "#">>,
      <<"GET", "/metrics", "HTTP/1.1", "Host", "#">>,
      [i \in 1 .. MaxRequestSize + 1 |-> "t"] }

Methods == {"GET", "POST"}
Paths == {"/metrics", "/other"}

\* Stats snapshots the scheduler may hold while the responder runs
StatsTried ==
    { [started_time |-> 0, last_known_time |-> 0, connections_opened |-> 0,
       connections_closed |-> 0, bytes_generated |-> 0, bytes_sent |-> 0,
       trapped_time |-> 0],
      [started_time |-> 0, last_known_time |-> 3, connections_opened |-> 2,
       connections_closed |-> 0, bytes_generated |-> 2, bytes_sent |-> 3,
       trapped_time |-> 4] }

\* Display for EndlesshStats: the six lines of the body, one number each
to_string(st) ==
    << st.last_known_time - st.started_time, st.connections_opened,
       st.connections_closed, st.bytes_generated, st.bytes_sent, st.trapped_time >>

HTTP_404_RESPONSE == << <<404>>, <<>> >>
HTTP_405_RESPONSE == << <<405>>, <<>> >>

\* generate_http_response: status line, Content-Length, body
generate_http_response(to_body) ==
    LET body == to_string(to_body) IN << <<200>>, <<Len(body)>>, body >>

\* Request::parse with an empty header array, on the symbols read so far:
\* [status, method, path]; the first header line met gives TooManyHeaders
parse(buf) ==
    LET n == Len(buf)
        res(status) == [status |-> status,
                        method |-> IF n >= 1 /\ buf[1] \in Methods THEN buf[1] ELSE "",
                        path |-> IF n >= 2 /\ buf[1] \in Methods /\ buf[2] \in Paths
                                 THEN buf[2] ELSE ""]
    IN  IF n = 0 THEN res("Partial")
        ELSE IF buf[1] = "t"
             THEN (IF \A i \in 1 .. n : buf[i] = "t" THEN res("Partial") ELSE res("Error"))
        ELSE IF buf[1] \notin Methods THEN res("Error")
        ELSE IF n = 1 THEN res("Partial")
        ELSE IF buf[2] \notin Paths THEN res("Error")
        ELSE IF n = 2 THEN res("Partial")
        ELSE IF buf[3] # "HTTP/1.1" THEN res("Error")
        ELSE IF n = 3 THEN res("Partial")
        ELSE IF buf[4] = "" THEN res("Complete")
        ELSE IF buf[4] = "Host" THEN res("TooManyHeaders")
        ELSE res("Error")

\* the match as it would be with the 404 and 405 arms exchanged
select_response_swapped(method, path, response) ==
    IF path = "/metrics"
    THEN IF method = "GET"
         THEN generate_http_response(response)
         ELSE HTTP_404_RESPONSE
    ELSE HTTP_405_RESPONSE

\* the match on request_parser.path and request_parser.method
select_response(method, path, response) ==
    IF path = "/metrics"
    THEN IF method = "GET"
         THEN generate_http_response(response)
         ELSE HTTP_405_RESPONSE
    ELSE HTTP_404_RESPONSE

\* HttpClient built by try_accept_new_connections.  interest is the readiness
\* the stream is registered for.  head, sent, resp and rx are the peer's side:
\* the request it sends (<<>> until its first symbol is read), how much of it
\* has been read, the response chosen for it and the units of it received
new_http_client ==
    [status |-> "ReadingRequest", buffer |-> <<>>, source |-> <<>>,
     interest |-> "READABLE", head |-> <<>>, sent |-> 0, resp |-> <<>>, rx |-> <<>>]

\* what one copy() from the stream can meet: k more symbols of the peer's
\* request, then the end; or an error of the stream, which discards what the
\* copy read before it
ReadIOs(client) ==
    LET heads == IF client.head = <<>> THEN Heads ELSE {client.head}
    IN  UNION { { [head |-> IF k = 0 THEN client.head ELSE h, k |-> k, end |-> e] :
                     k \in 0 .. Len(h) - client.sent,
                     e \in {"WouldBlock", "Eof"} } : h \in heads }
            \cup {[head |-> client.head, k |-> 0, end |-> "Err"]}

\* what one copy() to the stream can meet: k units written, then the end
WriteIOs(client) ==
    {[k |-> Len(client.source), end |-> "Done"]}
        \cup [k : 0 .. Len(client.source) - 1, end : {"WouldBlock", "Err"}]

\* what copy() from the stream to the cursor returns: the cursor takes what
\* fits, more is a WriteZero error; the end of the stream is Ok(n)
read_result(client, io) ==
    IF io.k > MaxRequestSize - Len(client.buffer) THEN "Err"
    ELSE IF io.end = "Eof" THEN (IF io.k = 0 THEN "Ok0" ELSE "Ok")
    ELSE io.end

\* handle_client, ReadingRequest: [keep, client, fatal]; keep = FALSE is the
\* None result.  reg is what the registry answers to the deregister or the
\* reregister of the step; the unwrap() of an Err ends the process and fatal
\* names the call, the client being lost with its token
handle_client_reading(client, io, response, reg) ==
    LET data == SubSeq(io.head, client.sent + 1, client.sent + io.k)
        room == MaxRequestSize - Len(client.buffer)
        copied == IF io.k <= room THEN data ELSE SubSeq(data, 1, room)
        result == read_result(client, io)
        c1 == [client EXCEPT !.head = io.head, !.sent = @ + io.k]
        buffer == client.buffer \o copied
        p == parse(buffer)
        dropped == IF reg = "Ok"
                   THEN [keep |-> FALSE, client |-> [c1 EXCEPT !.interest = "none"],
                         fatal |-> "none"]
                   ELSE [keep |-> FALSE, client |-> c1, fatal |-> "deregister"]
    IN  IF result \in {"Ok0", "Err"}
        THEN dropped
        ELSE IF p.status = "Partial"
        THEN [keep |-> TRUE, client |-> [c1 EXCEPT !.buffer = buffer], fatal |-> "none"]
        ELSE IF p.status = "Error"
        THEN dropped
        ELSE LET chosen == select_response(p.method, p.path, response)
                 c2 == [c1 EXCEPT !.status = "WritingResponse",
                                  !.buffer = <<>>,
                                  !.source = chosen,
                                  !.resp = chosen]
             IN  IF reg = "Ok"
                 THEN [keep |-> TRUE, client |-> [c2 EXCEPT !.interest = "WRITABLE"],
                       fatal |-> "none"]
                 ELSE [keep |-> FALSE, client |-> c2, fatal |-> "reregister"]

\* the WritingResponse arm as it would be if a connection were kept for another
\* request once its response is written
handle_client_writing_keep_alive(client, io, reg) ==
    LET c1 == [client EXCEPT !.rx = @ \o SubSeq(client.source, 1, io.k),
                             !.source = <<>>]
    IN  IF io.end = "WouldBlock"
        THEN [keep |-> TRUE, client |-> c1, fatal |-> "none"]
        ELSE IF io.end = "Done"
        THEN [keep |-> TRUE, client |-> [c1 EXCEPT !.status = "ReadingRequest",
                                                   !.interest = "READABLE"],
              fatal |-> "none"]
        ELSE IF reg = "Ok"
        THEN [keep |-> FALSE, client |-> [c1 EXCEPT !.interest = "none"], fatal |-> "none"]
        ELSE [keep |-> FALSE, client |-> c1, fatal |-> "deregister"]

\* handle_client, WritingResponse: copy() reads all that is left of the source
\* into its buffer (a response is shorter than that buffer) and writes it out;
\* a would-block or an error ends the copy with the source already read.  reg
\* is what the registry answers to the deregister
handle_client_writing(client, io, reg) ==
    LET c1 == [client EXCEPT !.rx = @ \o SubSeq(client.source, 1, io.k),
                             !.source = <<>>]
    IN  IF io.end = "WouldBlock"
        THEN [keep |-> TRUE, client |-> c1, fatal |-> "none"]
        ELSE IF reg = "Ok"
        THEN [keep |-> FALSE, client |-> [c1 EXCEPT !.interest = "none"], fatal |-> "none"]
        ELSE [keep |-> FALSE, client |-> c1, fatal |-> "deregister"]

handle_client(client, io, response, reg) ==
    IF client.status = "ReadingRequest"
    THEN handle_client_reading(client, io, response, reg)
    ELSE handle_client_writing(client, io, reg)

\* the ends of one handle_client step, r being its end when the registry
\* answers Ok: the registry is called, and may answer Err, in the steps that
\* end the connection or turn it to WritingResponse
handle_client_ends(client, io, response, r) ==
    IF ~r.keep \/ r.client.status # client.status
    THEN {r, handle_client(client, io, response, "Err")}
    ELSE {r}

ClientIOs(client) ==
    IF client.status = "ReadingRequest" THEN ReadIOs(client) ELSE WriteIOs(client)

\* the loop condition of try_accept_new_connections
metric_accept_guard(avail, free) == avail /\ free # <<>>

\* try_accept_new_connections: s = [avail, free, conns, backlog, aerr, rerr,
\* fatal, panicked]; rerr is the number of streams the registry registers
\* before it answers Err to a register, None when it never does; fatal names
\* the call whose failure ended the process
RECURSIVE try_accept_new_connections(_)
try_accept_new_connections(s) ==
    IF metric_accept_guard(s.avail, s.free)
    THEN IF s.aerr = 0
         THEN [s EXCEPT !.panicked = TRUE, !.fatal = "accept"]
         ELSE IF s.backlog > 0
              THEN LET token == Head(s.free)
                   IN  IF s.rerr = 0
                       THEN [s EXCEPT !.free = Tail(@), !.backlog = @ - 1,
                                      !.panicked = TRUE, !.fatal = "register"]
                       ELSE try_accept_new_connections(
                                [s EXCEPT !.free = Tail(@),
                                          !.conns = [t \in DOMAIN @ \cup {token} |->
                                                        IF t = token THEN new_http_client
                                                        ELSE @[t]],
                                          !.backlog = @ - 1,
                                          !.aerr = after_accept(@),
                                          !.rerr = after_accept(@)])
              ELSE try_accept_new_connections([s EXCEPT !.avail = FALSE])
    ELSE s

\* try_handle_event as it would be without the accept after a client's step
accept_after_client_skipped(s) == s

\* try_handle_event as it would be if the token were returned to the pool
\* whether or not the client is kept
recycle_always(free, conns, token, r) ==
    [free |-> Append(free, token),
     conns |-> IF r.keep
               THEN [t \in DOMAIN conns \cup {token} |->
                        IF t = token THEN r.client ELSE conns[t]]
               ELSE conns]

\* try_handle_event, after a client's step: "in case the number of clients
\* dropped from the max"
accept_after_client(s) == try_accept_new_connections(s)

\* try_handle_event, a tracked client's token: what becomes of the token
recycle(free, conns, token, r) ==
    IF r.keep
    THEN [free |-> free,
          conns |-> [t \in DOMAIN conns \cup {token} |->
                        IF t = token THEN r.client ELSE conns[t]]]
    ELSE [free |-> Append(free, token), conns |-> conns]

\* a connection waits although the listener is known to be ready: no token is free
deferred(avail, free, waiting) == avail /\ free = <<>> /\ waiting > 0

\* what is kept of a connection that was closed
closed_view(client) ==
    [status |-> client.status, interest |-> client.interest, resp |-> client.resp,
     rx |-> client.rx]

\* write_end: how the copy() to the stream ended, when the step was one;
\* read_end: "Ok0" or "Err" when the copy() from the stream returned that;
\* fatal: the call whose failure ended the process in the step
MetricNoStep == [kind |-> "none", token |-> 0, freed |-> FALSE, deferred_before |-> FALSE,
                 admitted |-> 0, write_end |-> "none", read_end |-> "none",
                 closed |-> closed_view(new_http_client), fatal |-> "none"]

\* one run of the accept loop meets at most one failure, of accept() or of the
\* register of an accepted stream, and only when the loop runs
AcceptErrors(avail, free, waiting) ==
    IF metric_accept_guard(avail, free)
    THEN {[aerr |-> a, rerr |-> None] : a \in AcceptErrorsTried(waiting, Len(free))}
             \cup {[aerr |-> None, rerr |-> k] :
                      k \in {j \in 0 .. waiting - 1 : j < Len(free)}}
    ELSE {[aerr |-> None, rerr |-> None]}

\* before MetricServer::create: nothing is built
MetricInit ==
    /\ client_token_range \in {1 .. n : n \in PoolsTried}
    /\ metric_listener_accept_available = FALSE
    /\ available_connections = <<>>
    /\ current_connections = << >>
    /\ metric_backlog = 0
    /\ metric_peers = 0
    /\ metric_pc = "uncreated"
    /\ metric_last = MetricNoStep

\* MetricServer::create: the listener is registered, the answer unwrapped, and
\* the tokens of the range are collected into available_connections
MetricCreate ==
    /\ metric_pc = "uncreated"
    /\ \E reg \in RegisterResults :
          IF reg = "Ok"
          THEN /\ available_connections' = [i \in 1 .. Cardinality(client_token_range) |-> i]
               /\ metric_listener_accept_available' = FALSE
               /\ current_connections' = << >>
               /\ metric_pc' = "idle"
               /\ metric_last' = [MetricNoStep EXCEPT !.kind = "create"]
          ELSE /\ metric_pc' = "panicked"
               /\ metric_last' = [MetricNoStep EXCEPT !.kind = "create",
                                                      !.fatal = "register"]
               /\ UNCHANGED <<metric_listener_accept_available, available_connections,
                              current_connections>>
    /\ UNCHANGED <<client_token_range, metric_backlog, metric_peers>>

\* a peer connects to the metrics listener
MetricConnect ==
    /\ metric_pc = "idle"
    /\ metric_peers < MaxMetricConns
    /\ metric_backlog' = metric_backlog + 1
    /\ metric_peers' = metric_peers + 1
    /\ UNCHANGED <<client_token_range, metric_listener_accept_available,
                   available_connections, current_connections, metric_pc, metric_last>>

\* try_handle_event, the event carries the listener's token
MetricListenerEvent ==
    /\ metric_pc = "idle"
    /\ \E f \in AcceptErrors(TRUE, available_connections, metric_backlog) :
          \E s \in {try_accept_new_connections(
                        [avail |-> TRUE, free |-> available_connections,
                         conns |-> current_connections, backlog |-> metric_backlog,
                         aerr |-> f.aerr, rerr |-> f.rerr, fatal |-> "none",
                         panicked |-> FALSE])} :
              /\ metric_listener_accept_available' = s.avail
              /\ available_connections' = s.free
              /\ current_connections' = s.conns
              /\ metric_backlog' = s.backlog
              /\ metric_pc' = IF s.panicked THEN "panicked" ELSE "idle"
              /\ metric_last' = [MetricNoStep EXCEPT
                                    !.kind = "listener",
                                    !.admitted = metric_backlog - s.backlog,
                                    !.fatal = s.fatal]
    /\ UNCHANGED <<client_token_range, metric_peers>>

\* try_handle_event, the event carries the token of a tracked client: the
\* client is taken out of the map, handle_client makes its step, the client is
\* put back or its token returned, and connections are accepted
MetricClientEvent ==
    /\ metric_pc = "idle"
    /\ \E token \in DOMAIN current_connections :
          \E c \in {current_connections[token]} :
          \E others \in {[t \in DOMAIN current_connections \ {token} |->
                            current_connections[t]]} :
          \E io \in ClientIOs(c) :
          \E r0 \in {handle_client(c, io, stats, "Ok")} :
          \E r \in handle_client_ends(c, io, stats, r0) :
          \E step \in {[kind |-> "client", token |-> token, freed |-> FALSE,
                         deferred_before |->
                             deferred(metric_listener_accept_available,
                                      available_connections, metric_backlog),
                         admitted |-> 0,
                         write_end |-> IF c.status = "WritingResponse"
                                       THEN io.end ELSE "none",
                         read_end |-> IF c.status = "ReadingRequest"
                                         /\ read_result(c, io) \in {"Ok0", "Err"}
                                      THEN read_result(c, io)
                                      ELSE "none",
                         closed |-> closed_view(new_http_client),
                         fatal |-> r.fatal]} :
             IF r.fatal # "none"
             THEN /\ current_connections' = others
                  /\ metric_pc' = "panicked"
                  /\ metric_last' = step
                  /\ UNCHANGED <<metric_listener_accept_available,
                                 available_connections, metric_backlog>>
             ELSE \E q \in {recycle(available_connections, others, token, r)} :
                  \E f \in AcceptErrors(metric_listener_accept_available, q.free,
                                        metric_backlog) :
                  \E s \in {accept_after_client(
                                [avail |-> metric_listener_accept_available,
                                 free |-> q.free, conns |-> q.conns,
                                 backlog |-> metric_backlog, aerr |-> f.aerr,
                                 rerr |-> f.rerr, fatal |-> "none",
                                 panicked |-> FALSE])} :
                     /\ metric_listener_accept_available' = s.avail
                     /\ available_connections' = s.free
                     /\ current_connections' = s.conns
                     /\ metric_backlog' = s.backlog
                     /\ metric_pc' = IF s.panicked THEN "panicked" ELSE "idle"
                     /\ metric_last' =
                           [step EXCEPT
                               !.freed = ~r.keep,
                               !.admitted = metric_backlog - s.backlog,
                               !.closed = IF r.keep THEN closed_view(new_http_client)
                                          ELSE closed_view(r.client),
                               !.fatal = s.fatal]
    /\ UNCHANGED <<client_token_range, metric_peers>>

\* try_handle_event, the event carries neither token: nothing changes, false
MetricOtherEvent ==
    /\ metric_pc = "idle"
    /\ metric_last' = [MetricNoStep EXCEPT !.kind = "other"]
    /\ UNCHANGED <<client_token_range, metric_listener_accept_available,
                   available_connections, current_connections, metric_backlog,
                   metric_peers, metric_pc>>

\* the responder is not running
MetricIdle ==
    /\ client_token_range = {}
    /\ metric_listener_accept_available = FALSE
    /\ available_connections = <<>>
    /\ current_connections = << >>
    /\ metric_backlog = 0
    /\ metric_peers = 0
    /\ metric_pc = "idle"
    /\ metric_last = MetricNoStep

\* the scheduler is not running: its counters stand at a snapshot
TarpitIdle ==
    /\ options \in {o \in OptionsTried : o.max_clients = 0 /\ o.message_delay = 0}
    /\ clients = <<>>
    /\ listener_accept_available = FALSE
    /\ line_buffer = new_line_buffer(options)
    /\ stats \in StatsTried
    /\ backlog = 0
    /\ pc = "idle"
    /\ now = 0
    /\ generated_line = FALSE
    /\ ret = None
    /\ last = NoStep
    /\ fresh0 = {}
    /\ attempted = {}
    /\ sent_lines = {}
    /\ generated0 = 0
    /\ bytes_written = 0

TarpitNext ==
    \/ Connect
    \/ TryHandleEvent
    \/ HandleWakeup
    \/ WakeupSend
    \/ WakeupWait
    \/ WakeupDone

MetricNext ==
    \/ MetricCreate
    \/ MetricConnect
    \/ MetricListenerEvent
    \/ MetricClientEvent
    \/ MetricOtherEvent

Init == TarpitInit /\ MetricIdle

Next ==
    \/ Connect /\ UNCHANGED metric_vars
    \/ TryHandleEvent /\ UNCHANGED metric_vars
    \/ HandleWakeup /\ UNCHANGED metric_vars
    \/ WakeupSend /\ UNCHANGED metric_vars
    \/ WakeupWait /\ UNCHANGED metric_vars
    \/ WakeupDone /\ UNCHANGED metric_vars

\* the tarpit scheduler under every environment
Spec == Init /\ [][Next]_vars

\* the thread that entered handle_wakeup keeps executing its loop
FairSpec == Spec /\ WF_vars(WakeupIterate /\ UNCHANGED metric_vars)

CreateSpecInit == CreateInit /\ MetricIdle

CreateSpecNext == Create /\ UNCHANGED metric_vars

\* EndlesshServer::create on every option record tried
CreateSpec == CreateSpecInit /\ [][CreateSpecNext]_vars

MetricSpecInit == MetricInit /\ TarpitIdle

MetricSpecNext ==
    \/ MetricCreate /\ UNCHANGED tarpit_vars
    \/ MetricConnect /\ UNCHANGED tarpit_vars
    \/ MetricListenerEvent /\ UNCHANGED tarpit_vars
    \/ MetricClientEvent /\ UNCHANGED tarpit_vars
    \/ MetricOtherEvent /\ UNCHANGED tarpit_vars

\* the metrics responder under every environment
MetricSpec == MetricSpecInit /\ [][MetricSpecNext]_vars

(***************************************************************************)
(* Properties of the tarpit scheduler.                                     *)
(***************************************************************************)
IDs(cl) == {cl[i].id : i \in 1 .. Len(cl)}

\* the last handle_wakeup call has returned
Returned == pc = "idle" /\ last.kind \in {"wait", "done"}

\* C1: the queue never holds more than max_clients clients, between any two
\* steps of the scheduler, replacement accepts inside handle_wakeup included.
C1_QueueWithinMax == Len(clients) <= options.max_clients

\* C1 witness: inside handle_wakeup a client was dropped, a replacement was
\* accepted in its place and the queue is full again.
C1_Witness ==
    /\ pc = "wakeup"
    /\ last.kind = "drop"
    /\ last.admitted = 1
    /\ options.max_clients > 0
    /\ Len(clients) = options.max_clients

\* C2: every handle_wakeup call returns, whatever the sends answer.
C2_WakeupReturns == (pc = "wakeup") ~> (pc # "wakeup")

\* C3: when handle_wakeup returns, a send has been attempted for every client
\* that was queued at entry and had never been sent a line.
C3_FreshServedNextWakeup == Returned => fresh0 \subseteq attempted

\* C4: a send is never attempted for a client at a time before its last
\* successful send plus message_delay.
C4_NotBeforeDelay ==
    (last.kind \in {"requeue", "drop"} /\ last.prev # None)
        => now >= last.prev + options.message_delay

\* C4 witness: a client served before was served again, with a positive delay.
C4_Witness ==
    /\ last.kind = "requeue"
    /\ last.prev # None
    /\ last.res \in {"partial", "full"}
    /\ options.message_delay > 0

\* ids of the queued clients with t = last_send_time + message_delay
at_deadline_ids(cl, t) ==
    {cl[i].id : i \in {j \in 1 .. Len(cl) :
                         /\ cl[j].last_send_time # None
                         /\ t = cl[j].last_send_time + options.message_delay}}

\* C5: when handle_wakeup(now) returns, a send has been attempted in the call
\* for every queued client with now >= last_send_time + message_delay: those
\* past their deadline and those at it.
C5_DueServedAtWakeup ==
    Returned =>
        (due_ids(clients, now) \cup at_deadline_ids(clients, now)) \subseteq attempted

\* C6: a returned delay is last_send_time + message_delay - now of the client
\* the scan stopped at, and it is strictly positive.
C6_DelayIsPositiveDeadline ==
    (Returned /\ last.kind = "wait")
        => /\ ret = last.prev + options.message_delay - now
           /\ ret > 0

\* C9: a client leaves the queue only when its own send wrote zero bytes or
\* failed with an error other than would-block; if a connection was deferred
\* at that moment (accept-available set, a connection waiting in the backlog)
\* it is accepted in the same step and queued last, unless accept() fails
\* fatally; and while the queue is full no pending connection is taken from
\* the backlog.
C9_DeferredAdmittedOnDrop ==
    [][LET removed == IDs(clients) \ IDs(clients')
       IN  /\ removed # {} =>
                  /\ pc = "wakeup"
                  /\ removed = {Head(clients).id}
                  /\ last'.res \in {"zero", "Err"}
           /\ (removed # {} /\ listener_accept_available /\ backlog > 0
                   /\ pc' # "panicked") =>
                  /\ backlog' = backlog - 1
                  /\ Len(clients') = Len(clients)
                  /\ clients'[Len(clients')].last_send_time = None
                  /\ clients'[Len(clients')].id \notin IDs(clients)
           /\ (removed = {} /\ Len(clients) = options.max_clients) =>
                  /\ backlog' >= backlog
                  /\ IDs(clients') = IDs(clients)
      ]_vars

\* C9 witness: a connection was waiting with the queue full, a client was
\* dropped in a wake-up and the waiting connection took the free place.
C9_Witness ==
    /\ last.kind = "drop"
    /\ last.avail_before
    /\ last.backlog_before > 0
    /\ last.admitted > 0
    /\ Len(clients) = options.max_clients
    /\ clients[Len(clients)].last_send_time = None

\* C12: create succeeds exactly when banner_line_length plus the length of the
\* terminator (1 for LF, 2 for CRLF) is at most 256 and fails fatally otherwise;
\* a created scheduler has an empty queue, zeroed counters and accept-available
\* false.
C12_CreateIffLineFits ==
    LET terminator_length == IF options.newline = "LF" THEN 1 ELSE 2
        fits == options.banner_line_length + terminator_length <= 256
    IN  /\ pc = "idle" =>
              /\ fits
              /\ clients = <<>>
              /\ listener_accept_available = FALSE
              /\ stats.connections_opened = 0
              /\ stats.connections_closed = 0
              /\ stats.bytes_generated = 0
              /\ stats.bytes_sent = 0
              /\ stats.trapped_time = 0
              /\ stats.last_known_time = stats.started_time
        /\ pc = "panicked" => ~fits
        /\ pc \in {"uncreated", "idle", "panicked"}

\* C12, as the code has it: create returns a scheduler exactly when the line
\* with its terminator fits the 256 bytes, the queue could be allocated and
\* the registration of the listener succeeded; a line that does not fit fails
\* at the assert, before anything is allocated or registered, and a line that
\* fits fails only at the allocation or at the registration; a created
\* scheduler has an empty queue, zeroed counters and accept-available false.
C12_CreateIffFitsAndRegistered ==
    LET terminator_length == IF options.newline = "LF" THEN 1 ELSE 2
        fits == options.banner_line_length + terminator_length <= 256
    IN  /\ pc = "idle" =>
              /\ fits
              /\ last.res = "Ok"
              /\ clients = <<>>
              /\ listener_accept_available = FALSE
              /\ stats.connections_opened = 0
              /\ stats.connections_closed = 0
              /\ stats.bytes_generated = 0
              /\ stats.bytes_sent = 0
              /\ stats.trapped_time = 0
              /\ stats.last_known_time = stats.started_time
        /\ pc = "panicked" =>
              /\ last.res \in {"assert", "with_capacity", "register"}
              /\ last.res = "assert" <=> ~fits
        /\ pc \in {"uncreated", "idle", "panicked"}

\* C12 witness: create succeeded with the longest line that fits, 254 bytes
\* and CRLF, the listener registered.
C12_Witness ==
    /\ pc = "idle"
    /\ last.kind = "create"
    /\ last.res = "Ok"
    /\ options.banner_line_length = 254
    /\ options.newline = "CRLF"
    /\ Len(line_buffer) = 256
    /\ clients = <<>>

\* C13: a call of try_handle_event or handle_wakeup with now earlier than
\* last_known_time fails fatally and leaves the queue, the counters, the
\* accept-available flag, the backlog and the line buffer as they were.
C13_TimeRegressionFatal ==
    [][now' < stats.last_known_time =>
          /\ pc' = "panicked"
          /\ clients' = clients
          /\ stats' = stats
          /\ listener_accept_available' = listener_accept_available
          /\ backlog' = backlog
          /\ line_buffer' = line_buffer
      ]_vars

\* C13 witness: try_handle_event failed on an earlier now, clients being
\* queued and bytes having been sent.
C13_Witness ==
    /\ pc = "panicked"
    /\ last.kind = "event"
    /\ now < stats.last_known_time
    /\ clients # <<>>
    /\ stats.bytes_sent > 0

\* C14: no step that is not fatal decreases bytes_generated, bytes_sent,
\* connections_opened, trapped_time or last_known_time.
C14_CountersNeverDecrease ==
    [][pc' # "panicked" =>
          /\ stats'.bytes_generated >= stats.bytes_generated
          /\ stats'.bytes_sent >= stats.bytes_sent
          /\ stats'.connections_opened >= stats.connections_opened
          /\ stats'.trapped_time >= stats.trapped_time
          /\ stats'.last_known_time >= stats.last_known_time
      ]_vars

\* C14 witness: every one of the five counters has grown, a client having been
\* served twice.
C14_Witness ==
    /\ stats.bytes_generated > 1
    /\ stats.bytes_sent > 2
    /\ stats.connections_opened > 1
    /\ stats.trapped_time > 0
    /\ stats.last_known_time > 0
    /\ last.kind = "requeue"
    /\ last.prev # None

\* C15: bytes_sent is the sum of the counts the successful writes returned: a
\* write of n > 0 bytes adds n, a zero-byte write, a would-block and an error
\* add nothing.
C15_BytesSentIsSumOfWrites == stats.bytes_sent = bytes_written

\* C15 witness: three bytes have been counted over several writes, one of them
\* at least partial (a line has two bytes), and the last write would-block.
C15_Witness ==
    /\ stats.bytes_sent = 3
    /\ last.kind = "requeue"
    /\ last.res = "WouldBlock"

\* C16: within one handle_wakeup call every slice handed to write() has the
\* same content, and bytes_generated stands banner_line_length above its value
\* at entry when a due client was found in the call and at that value when
\* none was.
C16_OneLinePerWakeup ==
    /\ Cardinality(sent_lines) <= 1
    /\ stats.bytes_generated =
          generated0 + (IF attempted # {} THEN options.banner_line_length ELSE 0)
    /\ (pc = "wakeup" /\ attempted = {}) => ~generated_line

\* C16 witness: a call that was not the first one to generate a line served
\* two clients from one line and has returned.
C16_Witness ==
    /\ Returned
    /\ generated0 > 0
    /\ Cardinality(attempted) = 2
    /\ Cardinality(sent_lines) = 1
    /\ stats.bytes_generated = generated0 + options.banner_line_length

\* C17: the step in which handle_wakeup returns leaves the clients that were
\* not served in the call in the order they had in the queue, with their
\* fields.
C17_UnservedKeepOrder ==
    [][(pc = "wakeup" /\ pc' = "idle") =>
          LET unserved(c) == c.id \notin attempted
          IN  SelectSeq(clients', unserved) = SelectSeq(clients, unserved)
      ]_vars

\* C18: when handle_wakeup returns a delay, no client in the queue is due
\* before now + delay, a client never served being due at once.
C18_ReturnedDelayIsEarliest ==
    (Returned /\ last.kind = "wait") =>
        \A i \in 1 .. Len(clients) :
           LET c == clients[i]
               deadline == IF c.last_send_time = None
                           THEN now
                           ELSE c.last_send_time + options.message_delay
           IN  deadline >= now + ret


\* C22: when handle_wakeup has returned, it returned no delay exactly when its
\* scan met no not-yet-due client, the queue is then empty, and a non-empty
\* queue at return comes with a delay.
C22_NoDelayIffQueueDrained ==
    Returned =>
        /\ ret = None <=> last.kind = "done"
        /\ ret = None => clients = <<>>
        /\ clients # <<>> => ret >= 0

\* C22 witness: a call served clients, dropped every one of them and returned
\* no delay with the queue empty.
C22_Witness ==
    /\ Returned
    /\ last.kind = "done"
    /\ ret = None
    /\ attempted # {}
    /\ clients = <<>>
    /\ stats.connections_opened > 0

\* C23: connections_opened minus connections_closed is the number of clients
\* in the queue.
C23_CountersAccountForQueue ==
    pc \in {"idle", "wakeup"} =>
        stats.connections_opened - stats.connections_closed = Len(clients)

(***************************************************************************)
(* Properties of the metrics responder.                                    *)
(***************************************************************************)
\* number of times token t stands in the available list
Occurrences(t, free) == Cardinality({i \in 1 .. Len(free) : free[i] = t})

\* the step ended the process at a call of the readiness registry
registry_fatal(step) == step.fatal \in {"register", "deregister", "reregister"}

C8_DeferredAdmittedOnFree ==
    [][LET was_deferred == deferred(metric_listener_accept_available,
                                    available_connections, metric_backlog)
           client_step == metric_peers' = metric_peers /\ metric_last'.kind = "client"
           freeing == client_step /\ metric_last'.freed
           tok == metric_last'.token
       IN  was_deferred =>
              /\ \A t \in DOMAIN current_connections :
                    ~(client_step /\ t = tok) =>
                       /\ t \in DOMAIN current_connections'
                       /\ current_connections'[t] = current_connections[t]
              /\ ~freeing => metric_backlog' >= metric_backlog
              /\ (freeing /\ metric_pc' # "panicked") =>
                    /\ metric_backlog' = metric_backlog - 1
                    /\ tok \in DOMAIN current_connections'
                    /\ current_connections'[tok] = new_http_client
      ]_vars

\* C8 witness: a connection waited with every token bound, a tracked client
\* ended and the waiting connection holds its token.
C8_Witness ==
    /\ metric_last.kind = "client"
    /\ metric_last.freed
    /\ metric_last.deferred_before
    /\ metric_last.admitted = 1
    /\ metric_last.token \in DOMAIN current_connections
    /\ current_connections[metric_last.token] = new_http_client

\* C10: a connection that is writing a response got the one its request's
\* method and path call for: GET /metrics the 200 response with the rendered
\* Stats as body, another method on /metrics 405, any other path 404; and a
\* connection still reading has not read a complete head.
C10_ResponseByMethodAndPath ==
    \A t \in DOMAIN current_connections :
       LET c == current_connections[t]
       IN  /\ c.status = "WritingResponse" =>
                 IF c.head[2] = "/metrics"
                 THEN IF c.head[1] = "GET"
                      THEN c.resp = << <<200>>, <<6>>,
                                       << stats.last_known_time - stats.started_time,
                                          stats.connections_opened,
                                          stats.connections_closed,
                                          stats.bytes_generated, stats.bytes_sent,
                                          stats.trapped_time >> >>
                      ELSE c.resp = << <<405>>, <<>> >>
                 ELSE c.resp = << <<404>>, <<>> >>
           /\ c.status = "ReadingRequest" =>
                 /\ c.resp = <<>>
                 /\ c.buffer = SubSeq(c.head, 1, c.sent)
                 /\ ~(Len(c.buffer) >= 4 /\ c.buffer[1] \in Methods /\ c.buffer[2] \in Paths
                        /\ c.buffer[3] = "HTTP/1.1")

\* C10 witness: POST /metrics is being answered with 405 while GET /other is
\* being answered with 404, the counters not all zero.
C10_Witness ==
    /\ stats.bytes_sent > 0
    /\ \E t1, t2 \in DOMAIN current_connections :
          /\ current_connections[t1].head = <<"POST", "/metrics", "HTTP/1.1", "">>
          /\ current_connections[t1].status = "WritingResponse"
          /\ current_connections[t1].resp = << <<405>>, <<>> >>
          /\ current_connections[t2].head = <<"GET", "/other", "HTTP/1.1", "">>
          /\ current_connections[t2].status = "WritingResponse"
          /\ current_connections[t2].resp = << <<404>>, <<>> >>

\* the response a connection is given when its whole head arrives in one read
one_read_response(head) ==
    handle_client_reading(new_http_client,
                          [head |-> head, k |-> Len(head), end |-> "WouldBlock"],
                          stats, "Ok").client.resp

\* C11: a head that arrives in pieces is answered as the same head arriving in
\* one read: while pieces are missing the connection keeps the symbols read so
\* far at their offsets and has started no response, and a connection that is
\* writing has read its whole head and writes the response of the one-read case.
C11_SplitHeadOneResponse ==
    \A t \in DOMAIN current_connections :
       LET c == current_connections[t]
       IN  /\ c.status = "ReadingRequest" =>
                 /\ c.buffer = SubSeq(c.head, 1, c.sent)
                 /\ c.source = <<>>
                 /\ c.resp = <<>>
           /\ c.status = "WritingResponse" =>
                 /\ c.sent = Len(c.head)
                 /\ c.resp = one_read_response(c.head)

\* C19: a write that would-block keeps the connection tracked under its token
\* and still writing, and a connection closed after its source is exhausted
\* has been sent its whole response, each unit once and in order (the process
\* not having been ended by the registry).
C19_ResponseDeliveredWhole ==
    /\ (metric_pc = "idle" /\ metric_last.write_end = "WouldBlock") =>
          /\ ~metric_last.freed
          /\ metric_last.token \in DOMAIN current_connections
          /\ current_connections[metric_last.token].status = "WritingResponse"
    /\ (metric_last.write_end = "Done" /\ ~registry_fatal(metric_last)) =>
          /\ metric_last.freed
          /\ metric_last.closed.rx = metric_last.closed.resp

well_formed(head) ==
    /\ Len(head) >= 4
    /\ head[1] \in Methods
    /\ head[2] \in Paths
    /\ head[3] = "HTTP/1.1"
    /\ head[Len(head)] = ""
    /\ \A i \in 4 .. Len(head) - 1 : head[i] = "Host"

\* C21: a connection whose read returns zero bytes or fails with an error
\* other than would-block (a request that does not fit the buffer included) is
\* dropped in that step: nothing of a response was written to it, it is
\* deregistered and its token is back in the pool or bound to a connection
\* that was waiting; a connection whose head is malformed is never written a
\* response; the step touches no other tracked connection and ends the
\* process only if the registry fails or the accept() that follows the drop
\* does.
C21_BadRequestDroppedSilently ==
    [][\A t \in DOMAIN current_connections :
          LET c == current_connections[t]
              own_step == /\ metric_peers' = metric_peers
                          /\ metric_last'.kind = "client"
                          /\ metric_last'.token = t
              closed_now == own_step /\ metric_last'.freed
          IN  /\ (own_step /\ c.status = "ReadingRequest"
                     /\ metric_last'.read_end \in {"Ok0", "Err"}) =>
                    closed_now \/ registry_fatal(metric_last')
              /\ (closed_now /\ c.status = "ReadingRequest"
                     /\ ~registry_fatal(metric_last')) =>
                    /\ metric_last'.closed.status = "ReadingRequest"
                    /\ metric_last'.closed.rx = <<>>
                    /\ metric_last'.closed.resp = <<>>
                    /\ metric_last'.closed.interest = "none"
                    /\ \/ /\ Occurrences(t, available_connections') = 1
                          /\ t \notin DOMAIN current_connections'
                       \/ /\ Occurrences(t, available_connections') = 0
                          /\ t \in DOMAIN current_connections'
                          /\ current_connections'[t] = new_http_client
                    /\ \A u \in DOMAIN current_connections \ {t} :
                          /\ u \in DOMAIN current_connections'
                          /\ current_connections'[u] = current_connections[u]
                    /\ metric_pc' = "panicked" => metric_listener_accept_available
              /\ (t \in DOMAIN current_connections'
                     /\ current_connections'[t].status = "WritingResponse") =>
                    well_formed(current_connections'[t].head)
      ]_vars

====
